---- MODULE Spec2Model ----
(***************************************************************************)
(* Model of fast-backup (src/app.py): the scheduled-backup state machine.  *)
(* The history table, the local disk, the wall clock and the scheduler     *)
(* loop are the state; every function of app.py is an operator or an       *)
(* action.  Time is counted in ticks; a stored timestamp has the           *)
(* resolution of one second (strftime drops the sub-second part).          *)
(***************************************************************************)
EXTENDS Integers, Sequences, FiniteSets, TLC

(* ----------------------------- bounds ---------------------------------- *)
\* clock ticks in one second (datetime.now() is finer than "%S")
TicksPerSec == 2
\* seconds in one day of the model
SecPerDay == 2
\* days the clock runs
MaxDays == 5
\* invocations of perform_backup in one run
MaxAttempts == 2
\* rows written by the History Store harness
MaxRows == 3
\* calls of init_db in the History Store harness
MaxInitCalls == 3

TicksPerDay == SecPerDay * TicksPerSec
MaxTime == MaxDays * TicksPerDay

(* ------------------------ program constants ---------------------------- *)
BACKUP_INTERVAL_DAYS == 3
\* BACKUP_TIME = "13:00": the second of the day at which the timer fires
BACKUP_TIME == 1
Exito == "Exito"
Fallo == "Fallo"
NA == <<"N/A", 0>>

VARIABLES
    now,               \* wall clock, in ticks (datetime.datetime.now())
    SOURCE_DIRECTORY,  \* os.getenv("SOURCE_DIRECTORY"): "dir" or "None"
    tableExists,       \* the table 'backups' exists in DB_FILE
    backups,           \* rows of the table 'backups', in insertion order
    disk,              \* artifact files present in the working directory
    pc,                \* position of the single thread of the process
    next_run,          \* schedule's job.next_run
    backup_name,       \* perform_backup: backup_name / output_path
    success,           \* perform_backup: success
    upload_success,    \* perform_backup: upload_success
    last_backup,       \* is_backup_due: last_backup
    due,               \* daily_task: value returned by is_backup_due()
    check_now,         \* is_backup_due: datetime.datetime.now() it read
    attempts,          \* perform_backup invocations so far
    init_calls,        \* calls of init_db so far (observation only)
    att,               \* what the current daily_task did (observation only)
    prev               \* what the previous daily_task did (observation only)

vars == <<now, SOURCE_DIRECTORY, tableExists, backups, disk, pc,
          next_run, backup_name, success, upload_success, last_backup, due,
          check_now, attempts, init_calls, att, prev>>

(* ------------------------ values and conversions ----------------------- *)
None == [isNone |-> TRUE, value |-> 0]
Some(v) == [isNone |-> FALSE, value |-> v]

\* strftime("%Y-%m-%d %H:%M:%S"): the text keeps whole seconds only
strftime(t) == t \div TicksPerSec
\* strptime(text, "%Y-%m-%d %H:%M:%S"): the datetime at the start of that second
strptime(s) == s * TicksPerSec
\* mutant: a started day counts as a whole day
days_RoundUp(delta) == -((-delta) \div TicksPerDay)

\* timedelta.days: whole days, rounded toward minus infinity
days(delta) == delta \div TicksPerDay

\* backup_name = f"backup_{folder_name}_{current_time}.zip"
BackupName(t) == <<"backup", strftime(t)>>
NoName == <<"", 0>>

MsgCompressOk == "Backup comprimido correctamente."
MsgCompressErr == "compress error"
MsgUploadOk == "Backup subido a Google Drive correctamente."
MsgUploadErr == "upload error"
MsgException == "exception"

(* ----------------------------- History Store --------------------------- *)
\* CREATE TABLE IF NOT EXISTS backups (...): the value of tableExists after
init_db(exists, ok) == exists \/ ok

\* mutant: the table is dropped and created again
create_table_Drop(rows, exists) == <<>>

\* CREATE TABLE IF NOT EXISTS backups (...): the rows of the table after
create_table(rows, exists) == IF exists THEN rows ELSE <<>>

\* the store after a call of init_db that succeeds (ok) or fails
InitDbStore(rows, exists, ok) ==
    [rows |-> IF ok THEN create_table(rows, exists) ELSE rows,
     exists |-> init_db(exists, ok)]

\* mutant: the id does not grow (no AUTOINCREMENT)
NextId_Constant(rows) == 1

\* id INTEGER PRIMARY KEY AUTOINCREMENT
NextId(rows) == IF Len(rows) = 0 THEN 1 ELSE rows[Len(rows)].id + 1

\* mutant: the storage error is raised to the caller
register_backup_Raises(rows, exists, t, name, status, message, writeOk) ==
    IF exists /\ writeOk
    THEN [rows |-> Append(rows, [id |-> NextId(rows),
                                 timestamp |-> strftime(t),
                                 backup_name |-> name,
                                 status |-> status,
                                 message |-> message]),
          raised |-> FALSE]
    ELSE [rows |-> rows, raised |-> TRUE]

\* register_backup: the row is inserted iff the table exists and the storage
\* write succeeds; an exception is logged and never raised to the caller.
register_backup(rows, exists, t, name, status, message, writeOk) ==
    IF exists /\ writeOk
    THEN [rows |-> Append(rows, [id |-> NextId(rows),
                                 timestamp |-> strftime(t),
                                 backup_name |-> name,
                                 status |-> status,
                                 message |-> message]),
          raised |-> FALSE]
    ELSE [rows |-> rows, raised |-> FALSE]

\* mutant: the WHERE clause is missing, the last row of any status is taken
SelectLastExito_AnyStatus(rows, i) ==
    IF i = 0 THEN <<>> ELSE <<rows[i].timestamp>>

\* SELECT timestamp FROM backups WHERE status = "Exito" ORDER BY id DESC LIMIT 1
RECURSIVE SelectLastExito(_, _)
SelectLastExito(rows, i) ==
    IF i = 0 THEN <<>>
    ELSE IF rows[i].status = Exito THEN <<rows[i].timestamp>>
    ELSE SelectLastExito(rows, i - 1)

\* mutant: ORDER BY timestamp DESC instead of ORDER BY id DESC
get_last_successful_backup_ByTimestamp(rows, exists, readOk) ==
    IF ~(exists /\ readOk) THEN None
    ELSE LET ok == {i \in 1..Len(rows) : rows[i].status = Exito}
         IN  IF ok = {} THEN None
             ELSE LET m == CHOOSE i \in ok :
                             \A j \in ok : rows[j].timestamp <= rows[i].timestamp
                  IN  Some(strptime(rows[m].timestamp))

\* get_last_successful_backup: None when the read fails or no row matches
get_last_successful_backup(rows, exists, readOk) ==
    IF ~(exists /\ readOk) THEN None
    ELSE LET result == SelectLastExito(rows, Len(rows))
         IN  IF result # <<>> THEN Some(strptime(result[1])) ELSE None

(* ------------------------------ Due-date policy ------------------------ *)
\* mutant: the threshold is exclusive
is_backup_due_Strict(last, t) ==
    IF last.isNone THEN TRUE
    ELSE days(t - last.value) > BACKUP_INTERVAL_DAYS

\* mutant: no known success means no backup (fail closed)
is_backup_due_FailClosed(last, t) ==
    IF last.isNone THEN FALSE
    ELSE days(t - last.value) >= BACKUP_INTERVAL_DAYS

\* is_backup_due, given the value get_last_successful_backup returned
is_backup_due(last, t) ==
    IF last.isNone THEN TRUE
    ELSE days(t - last.value) >= BACKUP_INTERVAL_DAYS

\* mutant: the job fires every second day
NextRun_EveryOtherDay(t) ==
    LET today == (t \div TicksPerDay) * TicksPerDay + strptime(BACKUP_TIME)
    IN  IF today > t THEN today ELSE today + 2 * TicksPerDay

\* schedule.every().day.at(BACKUP_TIME): the first fire time after t
NextRun(t) ==
    LET today == (t \div TicksPerDay) * TicksPerDay + strptime(BACKUP_TIME)
    IN  IF today > t THEN today ELSE today + TicksPerDay

(* ------------------------------ observation ---------------------------- *)
NoAttempt == [checked |-> FALSE, readFailed |-> FALSE, invoked |-> FALSE,
              startLen |-> 0, compressCalls |-> 0,
              uploadCalls |-> 0, registerCalls |-> 0, writeFailed |-> FALSE,
              removeCalls |-> 0, removeFailed |-> FALSE, raised |-> FALSE]

\* no daily_task has returned yet
NoWakeUp == [checked |-> FALSE, readFailed |-> FALSE, due |-> FALSE,
             invoked |-> FALSE, failure |-> FALSE]

\* the rows the current invocation of perform_backup appended
Appended == SubSeq(backups, att.startLen + 1, Len(backups))

(* -------------------------------- Init --------------------------------- *)
Init ==
    /\ now = 0
    /\ SOURCE_DIRECTORY \in {"dir", "None"}
    /\ tableExists = FALSE
    /\ backups = <<>>
    /\ disk = {}
    /\ pc = "main"
    /\ next_run = 0
    /\ backup_name = NoName
    /\ success = FALSE
    /\ upload_success = FALSE
    /\ last_backup = None
    /\ due = FALSE
    /\ check_now = 0
    /\ attempts = 0
    /\ init_calls = 0
    /\ att = NoAttempt
    /\ prev = NoWakeUp

(* ------------------------------- the clock ----------------------------- *)
\* time passes while the loop sleeps until the job's next run (time.sleep(1)
\* is far below one tick), while compress_directory runs and while
\* upload_to_drive runs; the other steps take no time
TimePasses ==
    \/ pc = "run_pending" /\ now < next_run
    \/ pc \in {"compress", "register"}

Tick ==
    /\ TimePasses
    /\ now < MaxTime
    /\ now' = now + 1
    /\ UNCHANGED <<init_calls, prev, SOURCE_DIRECTORY, tableExists, backups, disk, pc,
                   next_run, backup_name, success, upload_success, last_backup,
                   due, check_now, attempts, att>>

(* ------------------------------- startup ------------------------------- *)
\* __main__: init_db()
InitDb ==
    /\ pc = "main"
    /\ \E ok \in BOOLEAN : tableExists' = init_db(tableExists, ok)
    /\ init_calls' = init_calls + 1
    /\ pc' = "schedule_backup"
    /\ UNCHANGED <<prev, now, SOURCE_DIRECTORY, backups, disk, next_run,
                   backup_name, success, upload_success, last_backup, due,
                   check_now, attempts, att>>

\* schedule_backup: register the daily job, enter the loop
ScheduleBackup ==
    /\ pc = "schedule_backup"
    /\ next_run' = NextRun(now)
    /\ pc' = "run_pending"
    /\ UNCHANGED <<init_calls, prev, now, SOURCE_DIRECTORY, tableExists, backups, disk,
                   backup_name, success, upload_success, last_backup, due,
                   check_now, attempts, att>>

\* mutant: the job is started from a timer thread while a backup is running
RunPending_Threaded ==
    /\ pc \in {"run_pending", "compress", "register"}
    /\ now >= next_run
    /\ pc' = "daily_task"
    /\ UNCHANGED <<init_calls, prev, now, SOURCE_DIRECTORY, tableExists, backups, disk,
                   next_run, backup_name, success, upload_success, last_backup,
                   due, check_now, attempts, att>>

\* schedule.run_pending(): the job is run when its time has come
RunPending ==
    /\ pc = "run_pending"
    /\ now >= next_run
    /\ pc' = "daily_task"
    /\ UNCHANGED <<init_calls, prev, now, SOURCE_DIRECTORY, tableExists, backups, disk,
                   next_run, backup_name, success, upload_success, last_backup,
                   due, check_now, attempts, att>>

\* the job returned: schedule computes the next run and the loop goes on
JobDone ==
    /\ pc = "job_done"
    /\ next_run' = NextRun(now)
    /\ pc' = "run_pending"
    /\ backup_name' = NoName
    /\ success' = FALSE
    /\ upload_success' = FALSE
    /\ last_backup' = None
    /\ due' = FALSE
    /\ check_now' = 0
    /\ att' = NoAttempt
    /\ prev' = [checked |-> att.checked, readFailed |-> att.readFailed,
                due |-> due, invoked |-> att.invoked,
                failure |-> att.invoked /\ ~(success /\ upload_success)]
    /\ UNCHANGED <<init_calls, now, SOURCE_DIRECTORY, tableExists, backups, disk,
                   attempts>>

(* ------------------------------ daily_task ----------------------------- *)
\* mutant: perform_backup is invoked whatever is_backup_due returns
DailyTask_AlwaysRuns ==
    /\ pc = "daily_task"
    /\ \E readOk \in BOOLEAN :
         /\ last_backup' = get_last_successful_backup(backups, tableExists, readOk)
         /\ att' = [NoAttempt EXCEPT !.checked = TRUE,
                                      !.readFailed = ~(tableExists /\ readOk)]
    /\ check_now' = now
    /\ due' = is_backup_due(last_backup', now)
    /\ pc' = "perform_backup"
    /\ UNCHANGED <<init_calls, prev, now, SOURCE_DIRECTORY, tableExists, backups, disk,
                   next_run, backup_name, success, upload_success, attempts>>

\* daily_task: is_backup_due(), then perform_backup() or nothing
DailyTask ==
    /\ pc = "daily_task"
    /\ \E readOk \in BOOLEAN :
         /\ last_backup' = get_last_successful_backup(backups, tableExists, readOk)
         /\ att' = [NoAttempt EXCEPT !.checked = TRUE,
                                      !.readFailed = ~(tableExists /\ readOk)]
    /\ check_now' = now
    /\ due' = is_backup_due(last_backup', now)
    /\ pc' = IF due' THEN "perform_backup" ELSE "job_done"
    /\ UNCHANGED <<init_calls, prev, now, SOURCE_DIRECTORY, tableExists, backups, disk,
                   next_run, backup_name, success, upload_success, attempts>>

(* ----------------------------- perform_backup -------------------------- *)
\* lines 228-231: the names; os.path.normpath(None) raises TypeError
PerformBackup ==
    /\ pc = "perform_backup"
    /\ attempts < MaxAttempts
    /\ attempts' = attempts + 1
    /\ IF SOURCE_DIRECTORY = "None"
         THEN /\ pc' = "except"
              /\ backup_name' = backup_name
              /\ att' = [att EXCEPT !.invoked = TRUE, !.startLen = Len(backups),
                                    !.raised = TRUE]
         ELSE /\ pc' = "compress"
              /\ backup_name' = BackupName(now)
              /\ att' = [att EXCEPT !.invoked = TRUE, !.startLen = Len(backups)]
    /\ UNCHANGED <<init_calls, prev, now, SOURCE_DIRECTORY, tableExists, backups, disk,
                   next_run, success, upload_success, last_backup, due,
                   check_now>>

\* mutant: the return after a failed compression is missing
Compress_NoReturn ==
    /\ pc = "compress"
    /\ \E ok \in BOOLEAN, partial \in BOOLEAN, writeOk \in BOOLEAN :
         IF ok
         THEN /\ success' = TRUE
              /\ disk' = disk \cup {backup_name}
              /\ backups' = backups
              /\ pc' = "upload"
              /\ att' = [att EXCEPT !.compressCalls = @ + 1]
         ELSE LET reg == register_backup(backups, tableExists, now, backup_name,
                                         Fallo, <<MsgCompressErr>>, writeOk)
              IN  /\ success' = FALSE
                  /\ disk' = IF partial THEN disk \cup {backup_name} ELSE disk
                  /\ backups' = reg.rows
                  /\ pc' = IF reg.raised THEN "except" ELSE "upload"
                  /\ att' = [att EXCEPT !.compressCalls = @ + 1,
                                        !.registerCalls = @ + 1,
                                        !.writeFailed = @ \/ ~(tableExists /\ writeOk),
                                        !.raised = @ \/ reg.raised]
    /\ UNCHANGED <<init_calls, prev, now, SOURCE_DIRECTORY, tableExists, next_run,
                   backup_name, upload_success, last_backup, due, check_now,
                   attempts>>

\* lines 234-238: compress_directory; on failure one Fallo row and return
Compress ==
    /\ pc = "compress"
    /\ \E ok \in BOOLEAN, partial \in BOOLEAN, writeOk \in BOOLEAN :
         IF ok
         THEN /\ success' = TRUE
              /\ disk' = disk \cup {backup_name}
              /\ backups' = backups
              /\ pc' = "upload"
              /\ att' = [att EXCEPT !.compressCalls = @ + 1]
         ELSE LET reg == register_backup(backups, tableExists, now, backup_name,
                                         Fallo, <<MsgCompressErr>>, writeOk)
              IN  /\ success' = FALSE
                  /\ disk' = IF partial THEN disk \cup {backup_name} ELSE disk
                  /\ backups' = reg.rows
                  /\ pc' = IF reg.raised THEN "except" ELSE "job_done"
                  /\ att' = [att EXCEPT !.compressCalls = @ + 1,
                                        !.registerCalls = @ + 1,
                                        !.writeFailed = @ \/ ~(tableExists /\ writeOk),
                                        !.raised = @ \/ reg.raised]
    /\ UNCHANGED <<init_calls, prev, now, SOURCE_DIRECTORY, tableExists, next_run,
                   backup_name, upload_success, last_backup, due, check_now,
                   attempts>>

\* mutant: a failed upload is tried again within the invocation
Upload_Retries ==
    /\ pc = "upload"
    /\ \E ok \in BOOLEAN :
         /\ upload_success' = ok
         /\ pc' = IF ok \/ att.uploadCalls >= 1 THEN "register" ELSE "upload"
    /\ att' = [att EXCEPT !.uploadCalls = @ + 1]
    /\ UNCHANGED <<init_calls, prev, now, SOURCE_DIRECTORY, tableExists, backups, disk,
                   next_run, backup_name, success, last_backup, due, check_now,
                   attempts>>

\* line 240: upload_to_drive(output_path)
Upload ==
    /\ pc = "upload"
    /\ \E ok \in BOOLEAN : upload_success' = ok
    /\ pc' = "register"
    /\ att' = [att EXCEPT !.uploadCalls = @ + 1]
    /\ UNCHANGED <<init_calls, prev, now, SOURCE_DIRECTORY, tableExists, backups, disk,
                   next_run, backup_name, success, last_backup, due, check_now,
                   attempts>>

\* mutant: the failed upload is recorded and then raised as an error
Register_RaisesAfterFailure ==
    /\ pc = "register"
    /\ \E writeOk \in BOOLEAN :
         LET reg == IF upload_success
                    THEN register_backup(backups, tableExists, now, backup_name,
                                         Exito, <<MsgCompressOk, MsgUploadOk>>, writeOk)
                    ELSE register_backup(backups, tableExists, now, backup_name,
                                         Fallo, <<MsgCompressOk, MsgUploadErr>>, writeOk)
         IN  /\ backups' = reg.rows
             /\ pc' = IF reg.raised \/ ~upload_success THEN "except" ELSE "remove"
             /\ att' = [att EXCEPT !.registerCalls = @ + 1,
                                   !.writeFailed = @ \/ ~(tableExists /\ writeOk),
                                   !.raised = @ \/ reg.raised \/ ~upload_success]
    /\ UNCHANGED <<init_calls, prev, now, SOURCE_DIRECTORY, tableExists, disk, next_run,
                   backup_name, success, upload_success, last_backup, due,
                   check_now, attempts>>

\* mutant: every upload outcome is recorded as Exito
Register_AlwaysExito ==
    /\ pc = "register"
    /\ \E writeOk \in BOOLEAN :
         LET reg == register_backup(backups, tableExists, now, backup_name,
                                    Exito, <<MsgCompressOk, MsgUploadOk>>, writeOk)
         IN  /\ backups' = reg.rows
             /\ pc' = IF reg.raised THEN "except"
                      ELSE IF upload_success THEN "remove" ELSE "job_done"
             /\ att' = [att EXCEPT !.registerCalls = @ + 1,
                                   !.writeFailed = @ \/ ~(tableExists /\ writeOk),
                                   !.raised = @ \/ reg.raised]
    /\ UNCHANGED <<init_calls, prev, now, SOURCE_DIRECTORY, tableExists, disk, next_run,
                   backup_name, success, upload_success, last_backup, due,
                   check_now, attempts>>

\* mutant: the local file is deleted whatever the upload's outcome
Register_DeletesAlways ==
    /\ pc = "register"
    /\ \E writeOk \in BOOLEAN :
         LET reg == IF upload_success
                    THEN register_backup(backups, tableExists, now, backup_name,
                                         Exito, <<MsgCompressOk, MsgUploadOk>>, writeOk)
                    ELSE register_backup(backups, tableExists, now, backup_name,
                                         Fallo, <<MsgCompressOk, MsgUploadErr>>, writeOk)
         IN  /\ backups' = reg.rows
             /\ pc' = IF reg.raised THEN "except" ELSE "remove"
             /\ att' = [att EXCEPT !.registerCalls = @ + 1,
                                   !.writeFailed = @ \/ ~(tableExists /\ writeOk),
                                   !.raised = @ \/ reg.raised]
    /\ UNCHANGED <<init_calls, prev, now, SOURCE_DIRECTORY, tableExists, disk, next_run,
                   backup_name, success, upload_success, last_backup, due,
                   check_now, attempts>>

\* lines 241-243 and 250-252: the row of the upload's outcome
Register ==
    /\ pc = "register"
    /\ \E writeOk \in BOOLEAN :
         LET reg == IF upload_success
                    THEN register_backup(backups, tableExists, now, backup_name,
                                         Exito, <<MsgCompressOk, MsgUploadOk>>, writeOk)
                    ELSE register_backup(backups, tableExists, now, backup_name,
                                         Fallo, <<MsgCompressOk, MsgUploadErr>>, writeOk)
         IN  /\ backups' = reg.rows
             /\ pc' = IF reg.raised THEN "except"
                      ELSE IF upload_success THEN "remove" ELSE "job_done"
             /\ att' = [att EXCEPT !.registerCalls = @ + 1,
                                   !.writeFailed = @ \/ ~(tableExists /\ writeOk),
                                   !.raised = @ \/ reg.raised]
    /\ UNCHANGED <<init_calls, prev, now, SOURCE_DIRECTORY, tableExists, disk, next_run,
                   backup_name, success, upload_success, last_backup, due,
                   check_now, attempts>>

\* mutant: a failed deletion is recorded as a Fallo row
Remove_RecordsFailure ==
    /\ pc = "remove"
    /\ \E ok \in BOOLEAN :
         /\ disk' = IF ok THEN disk \ {backup_name} ELSE disk
         /\ backups' = IF ok THEN backups
                       ELSE register_backup(backups, tableExists, now, backup_name,
                                            Fallo, <<MsgException>>, TRUE).rows
         /\ att' = [att EXCEPT !.removeCalls = @ + 1, !.removeFailed = ~ok]
    /\ pc' = "job_done"
    /\ UNCHANGED <<init_calls, prev, now, SOURCE_DIRECTORY, tableExists,
                   next_run, backup_name, success, upload_success, last_backup,
                   due, check_now, attempts>>

\* mutant: os.remove is never called, the file stays
Remove_KeepsFile ==
    /\ pc = "remove"
    /\ \E ok \in BOOLEAN :
         /\ disk' = disk
         /\ att' = [att EXCEPT !.removeCalls = @ + 1, !.removeFailed = ~ok]
    /\ pc' = "job_done"
    /\ UNCHANGED <<init_calls, prev, now, SOURCE_DIRECTORY, tableExists, backups,
                   next_run, backup_name, success, upload_success, last_backup,
                   due, check_now, attempts>>

\* lines 245-249: os.remove(output_path); its failure is logged only
Remove ==
    /\ pc = "remove"
    /\ \E ok \in BOOLEAN :
         /\ disk' = IF ok THEN disk \ {backup_name} ELSE disk
         /\ att' = [att EXCEPT !.removeCalls = @ + 1, !.removeFailed = ~ok]
    /\ pc' = "job_done"
    /\ UNCHANGED <<init_calls, prev, now, SOURCE_DIRECTORY, tableExists, backups,
                   next_run, backup_name, success, upload_success, last_backup,
                   due, check_now, attempts>>

\* mutant: the handler records the error and raises it again
Except_Reraises ==
    /\ pc = "except"
    /\ \E writeOk \in BOOLEAN :
         LET reg == register_backup(backups, tableExists, now, NA, Fallo,
                                    <<MsgException>>, writeOk)
         IN  /\ backups' = reg.rows
             /\ pc' = "crashed"
             /\ att' = [att EXCEPT !.registerCalls = @ + 1,
                                   !.writeFailed = @ \/ ~(tableExists /\ writeOk)]
    /\ UNCHANGED <<init_calls, prev, now, SOURCE_DIRECTORY, tableExists, disk, next_run,
                   backup_name, success, upload_success, last_backup, due,
                   check_now, attempts>>

\* lines 253-255: except Exception: one Fallo row named "N/A"
Except ==
    /\ pc = "except"
    /\ \E writeOk \in BOOLEAN :
         LET reg == register_backup(backups, tableExists, now, NA, Fallo,
                                    <<MsgException>>, writeOk)
         IN  /\ backups' = reg.rows
             /\ pc' = IF reg.raised THEN "crashed" ELSE "job_done"
             /\ att' = [att EXCEPT !.registerCalls = @ + 1,
                                   !.writeFailed = @ \/ ~(tableExists /\ writeOk)]
    /\ UNCHANGED <<init_calls, prev, now, SOURCE_DIRECTORY, tableExists, disk, next_run,
                   backup_name, success, upload_success, last_backup, due,
                   check_now, attempts>>

Next ==
    \/ Tick
    \/ InitDb
    \/ ScheduleBackup
    \/ RunPending
    \/ JobDone
    \/ DailyTask
    \/ PerformBackup
    \/ Compress
    \/ Upload
    \/ Register
    \/ Remove
    \/ Except

Spec == Init /\ [][Next]_vars

(* ------------------ the History Store driven on its own ---------------- *)
\* register_backup and get_last_successful_backup called in any order, with
\* any status, under a wall clock that moves freely (it is also set back)
InitStore ==
    /\ Init
    /\ SOURCE_DIRECTORY = "dir"

StoreInitDb ==
    /\ pc = "main"
    /\ tableExists' = init_db(tableExists, TRUE)
    /\ init_calls' = init_calls + 1
    /\ pc' = "store"
    /\ UNCHANGED <<prev, now, SOURCE_DIRECTORY, backups, disk, next_run, backup_name,
                   success, upload_success, last_backup, due, check_now,
                   attempts, att>>

\* as many seconds as rows, so that every order of timestamps occurs
StoreMaxTime == MaxRows * TicksPerSec - 1

StoreClock ==
    /\ pc = "store"
    /\ now' \in 0..StoreMaxTime
    /\ now' # now
    /\ UNCHANGED <<init_calls, prev, SOURCE_DIRECTORY, tableExists, backups, disk, pc, next_run,
                   backup_name, success, upload_success, last_backup, due,
                   check_now, attempts, att>>

StoreRegister ==
    /\ pc = "store"
    /\ Len(backups) < MaxRows
    /\ \E status \in {Exito, Fallo}, writeOk \in BOOLEAN :
         backups' = register_backup(backups, tableExists, now, BackupName(now),
                                    status, <<status>>, writeOk).rows
    /\ last_backup' = None
    /\ att' = NoAttempt
    /\ UNCHANGED <<init_calls, prev, now, SOURCE_DIRECTORY, tableExists, disk, pc, next_run,
                   backup_name, success, upload_success, due, check_now,
                   attempts>>

StoreGetLast ==
    /\ pc = "store"
    /\ \E readOk \in BOOLEAN :
         /\ last_backup' = get_last_successful_backup(backups, tableExists, readOk)
         /\ att' = [NoAttempt EXCEPT !.checked = TRUE,
                                      !.readFailed = ~(tableExists /\ readOk)]
    /\ UNCHANGED <<init_calls, prev, now, SOURCE_DIRECTORY, tableExists, backups, disk, pc,
                   next_run, backup_name, success, upload_success, due,
                   check_now, attempts>>

\* init_db called again, at any point and with any history
StoreInitDbAgain ==
    /\ pc = "store"
    /\ init_calls < MaxInitCalls
    /\ \E ok \in BOOLEAN :
         LET store == InitDbStore(backups, tableExists, ok)
         IN  /\ backups' = store.rows
             /\ tableExists' = store.exists
    /\ init_calls' = init_calls + 1
    /\ UNCHANGED <<prev, now, SOURCE_DIRECTORY, disk, pc, next_run, backup_name,
                   success, upload_success, last_backup, due, check_now,
                   attempts, att>>

NextStore ==
    \/ StoreInitDb
    \/ StoreClock
    \/ StoreRegister
    \/ StoreGetLast
    \/ StoreInitDbAgain

SpecStore == InitStore /\ [][NextStore]_vars


(* ======================= properties of perform_backup ================== *)
\* perform_backup has returned to daily_task
Returned == pc = "job_done" /\ att.invoked
CompressFailed == Returned /\ att.compressCalls = 1 /\ ~success
UploadFailed == Returned /\ success /\ att.uploadCalls = 1 /\ ~upload_success
UploadSucceeded == Returned /\ success /\ att.uploadCalls = 1 /\ upload_success

\* every row this invocation wrote is a row of this artifact with that status
AppendedAre(status) ==
    \A i \in 1..Len(Appended) :
        Appended[i].status = status /\ Appended[i].backup_name = backup_name

\* C1: when compression succeeds and the upload fails, after perform_backup
\* returns the local artifact is still on disk and the row written for the
\* attempt has status Fallo (one row, when the storage write did not fail).
C1_UploadFailureKeepsArtifact ==
    UploadFailed =>
        /\ backup_name \in disk
        /\ AppendedAre(Fallo)
        /\ (~att.writeFailed => Len(Appended) = 1)

C1_Witness ==
    /\ UploadFailed
    /\ Len(Appended) = 1
    /\ Appended[1].status = Fallo
    /\ backup_name \in disk

\* C2 as stated: when compression and upload succeed, after perform_backup
\* returns the local artifact is absent and the row written has status Exito.
C2_Original ==
    UploadSucceeded =>
        /\ backup_name \notin disk
        /\ AppendedAre(Exito)

\* C2 amended: the artifact is absent when os.remove succeeded and is still
\* on disk when os.remove failed; os.remove was called once; the row written
\* has status Exito.
C2_UploadSuccessDeletesArtifact ==
    UploadSucceeded =>
        /\ att.removeCalls = 1
        /\ (backup_name \in disk <=> att.removeFailed)
        /\ AppendedAre(Exito)
        /\ (~att.writeFailed => Len(Appended) = 1)

C2_Witness ==
    /\ UploadSucceeded
    /\ ~att.removeFailed
    /\ backup_name \notin disk
    /\ Len(Appended) = 1
    /\ Appended[1].status = Exito

\* C3 as stated: when compress_directory fails, exactly one Fallo row is
\* appended and upload_to_drive is not called.
C3_Original ==
    CompressFailed =>
        /\ Len(Appended) = 1
        /\ Appended[1].status = Fallo
        /\ att.uploadCalls = 0

\* C3 amended: when compress_directory fails, upload_to_drive is not called;
\* exactly one Fallo row is appended when the storage write succeeds and
\* none when it fails.
C3_CompressFailure ==
    CompressFailed =>
        /\ att.uploadCalls = 0
        /\ att.registerCalls = 1
        /\ IF att.writeFailed
           THEN Appended = <<>>
           ELSE /\ Len(Appended) = 1
                /\ Appended[1].status = Fallo
                /\ Appended[1].backup_name = backup_name

C3_Witness ==
    /\ CompressFailed
    /\ Len(Appended) = 1
    /\ Appended[1].status = Fallo
    /\ att.uploadCalls = 0


(* ================ properties of the store and the due check ============ *)
HasExito(rows) == \E i \in 1..Len(rows) : rows[i].status = Exito
NoExito(rows) == \A i \in 1..Len(rows) : rows[i].status # Exito

\* the Exito row with the highest id
LastExitoRow(rows) ==
    LET i == CHOOSE i \in 1..Len(rows) :
                 /\ rows[i].status = Exito
                 /\ \A j \in 1..Len(rows) :
                        rows[j].status = Exito => rows[j].id <= rows[i].id
    IN  rows[i]

\* the datetime the timestamp text of that row stands for
LastSuccessT == strptime(LastExitoRow(backups).timestamp)
IntervalTicks == BACKUP_INTERVAL_DAYS * TicksPerDay

\* get_last_successful_backup has just returned in the store harness
StoreRead == pc = "store" /\ att.checked

\* C4 as stated: after any sequence of register_backup calls,
\* get_last_successful_backup returns the timestamp of the Exito row with
\* the highest id.
C4_Original ==
    (StoreRead /\ HasExito(backups)) => last_backup = Some(LastSuccessT)

\* C4 amended: when the storage read succeeds get_last_successful_backup
\* returns the timestamp of the Exito row with the highest id, whatever Fallo
\* rows follow it and whatever timestamps earlier Exito rows carry; when the
\* read fails it returns None.
C4_LastInsertedSuccess ==
    (StoreRead /\ HasExito(backups)) =>
        IF att.readFailed THEN last_backup = None
        ELSE last_backup = Some(LastSuccessT)

C4_Witness ==
    /\ StoreRead
    /\ ~att.readFailed
    /\ Len(backups) = 3
    /\ backups[1].status = Exito
    /\ backups[2].status = Exito
    /\ backups[3].status = Fallo
    /\ backups[1].timestamp > backups[2].timestamp
    /\ backups[3].timestamp > backups[1].timestamp
    /\ last_backup = Some(strptime(backups[2].timestamp))

\* is_backup_due has just returned in daily_task
JustChecked ==
    /\ att.checked
    /\ pc = "perform_backup" \/ (pc = "job_done" /\ ~att.invoked)

\* C5: when the history holds no Exito row (empty or Fallo rows only),
\* is_backup_due returns True at every current time, whether the read
\* succeeds or not.
C5_NoSuccessIsDue ==
    NoExito(backups) =>
        /\ \A readOk \in BOOLEAN :
               LET last == get_last_successful_backup(backups, tableExists, readOk)
               IN  \A t \in 0..MaxTime : is_backup_due(last, t)
        /\ (JustChecked => due)

C5_Witness ==
    /\ JustChecked
    /\ ~att.readFailed
    /\ Len(backups) >= 1
    /\ NoExito(backups)
    /\ days(check_now - strptime(backups[Len(backups)].timestamp)) < BACKUP_INTERVAL_DAYS
    /\ due

\* C6: when the last Exito row has timestamp T and the current time is
\* exactly T plus BACKUP_INTERVAL_DAYS days, is_backup_due returns True.
C6_DueAtInterval ==
    HasExito(backups) =>
        /\ \A readOk \in BOOLEAN :
               is_backup_due(get_last_successful_backup(backups, tableExists, readOk),
                             LastSuccessT + IntervalTicks)
        /\ (JustChecked /\ check_now = LastSuccessT + IntervalTicks => due)

C6_Witness ==
    /\ JustChecked
    /\ ~att.readFailed
    /\ HasExito(backups)
    /\ check_now = LastSuccessT + IntervalTicks
    /\ last_backup = Some(LastSuccessT)
    /\ due
    /\ pc = "perform_backup"

\* C7 as stated: when the last Exito row has timestamp T, is_backup_due
\* returns False at every current time before T plus BACKUP_INTERVAL_DAYS days.
C7_Original ==
    (JustChecked /\ HasExito(backups) /\ check_now < LastSuccessT + IntervalTicks)
        => ~due

\* C7 amended: when the last Exito row has timestamp T and the storage read
\* succeeds, is_backup_due returns False at every current time before
\* T plus BACKUP_INTERVAL_DAYS days, T plus (BACKUP_INTERVAL_DAYS - 1) days
\* included.
C7_NotDueBeforeInterval ==
    HasExito(backups) =>
        LET T == LastSuccessT
            last == get_last_successful_backup(backups, tableExists, TRUE)
        IN  /\ \A t \in 0..MaxTime :
                   t < T + IntervalTicks => ~is_backup_due(last, t)
            /\ (JustChecked /\ ~att.readFailed /\ check_now < T + IntervalTicks
                   => ~due)

C7_Witness ==
    /\ JustChecked
    /\ ~att.readFailed
    /\ HasExito(backups)
    /\ check_now = LastSuccessT + (BACKUP_INTERVAL_DAYS - 1) * TicksPerDay
    /\ ~due
    /\ pc = "job_done"

(* ===================== properties of the error handling ================ *)
\* C8 as stated: no error of the due check or of the pipeline reaches the
\* scheduler loop, and an error no stage handles is recorded as one Fallo
\* row named "N/A".
C8_Original ==
    /\ pc # "crashed"
    /\ (Returned /\ att.raised) =>
          /\ Len(Appended) = 1
          /\ Appended[1].status = Fallo
          /\ Appended[1].backup_name = NA

\* C8 amended: no error of the due check or of the pipeline reaches the
\* scheduler loop, which goes on to its next iteration; for an error no
\* stage handles register_backup is called once with the name "N/A" and the
\* status Fallo: one such row is appended when that storage write succeeds,
\* none when it fails.
C8_NoErrorEscapes ==
    /\ pc # "crashed"
    /\ att.raised => pc \in {"except", "job_done"}
    /\ pc = "job_done" => ENABLED JobDone
    /\ (Returned /\ att.raised) =>
          /\ att.registerCalls = 1
          /\ IF att.writeFailed
             THEN Appended = <<>>
             ELSE /\ Len(Appended) = 1
                  /\ Appended[1].status = Fallo
                  /\ Appended[1].backup_name = NA

C8_Witness ==
    /\ Returned
    /\ att.raised
    /\ Len(Appended) = 1
    /\ Appended[1].status = Fallo
    /\ Appended[1].backup_name = NA

\* C9: when the storage write inside register_backup fails, register_backup
\* returns normally, the history is unchanged, and perform_backup goes on as
\* after a successful write: after a successful upload os.remove is still
\* called and the artifact is gone unless os.remove itself failed.
C9_WriteFailureSwallowed ==
    att.writeFailed =>
        /\ Appended = <<>>
        /\ att.registerCalls = 1
        /\ SOURCE_DIRECTORY = "dir" => ~att.raised
        /\ pc = IF success /\ upload_success /\ att.removeCalls = 0
                THEN "remove" ELSE "job_done"
        /\ (Returned /\ success /\ upload_success) =>
              /\ att.removeCalls = 1
              /\ (backup_name \in disk <=> att.removeFailed)

C9_Witness ==
    /\ UploadSucceeded
    /\ att.writeFailed
    /\ tableExists
    /\ Appended = <<>>
    /\ att.removeCalls = 1
    /\ ~att.removeFailed
    /\ backup_name \notin disk

\* C10: when the read inside get_last_successful_backup fails (the table
\* was never created included), it returns None, is_backup_due returns True
\* and daily_task invokes perform_backup at that wake-up, also when an Exito
\* row younger than the interval exists.
C10_ReadFailureIsDue ==
    /\ ~tableExists =>
          \A readOk \in BOOLEAN :
              get_last_successful_backup(backups, tableExists, readOk) = None
    /\ (att.checked /\ att.readFailed) =>
          /\ last_backup = None
          /\ due
          /\ pc = "perform_backup" \/ att.invoked

C10_Witness ==
    /\ att.checked
    /\ att.readFailed
    /\ att.invoked
    /\ HasExito(backups)
    /\ check_now < LastSuccessT + IntervalTicks
    /\ pc = "compress"


(* ================== properties of one invocation and the loop ========== *)
\* C11: every invocation of perform_backup appends at most one row, on
\* every path; when the storage write succeeds it appends exactly one.
C11_AtMostOneRow ==
    att.invoked =>
        /\ Len(Appended) <= 1
        /\ att.registerCalls <= 1
        /\ (Returned /\ ~att.writeFailed) => Len(Appended) = 1
        /\ (Returned /\ att.writeFailed) => Len(Appended) = 0

C11_Witness ==
    /\ UploadSucceeded
    /\ att.removeFailed
    /\ ~att.writeFailed
    /\ Len(Appended) = 1

\* perform_backup has been entered and has not returned
InProgress == pc \in {"compress", "upload", "register", "remove", "except"}

\* C12: no two invocations of perform_backup overlap: the timer is checked
\* and fired only by the loop, never while daily_task or perform_backup
\* runs, and the job's next run is not touched before the job has returned.
C12_Step ==
    /\ (pc' = "daily_task" /\ pc # "daily_task") => pc = "run_pending"
    /\ attempts' # attempts => (pc = "perform_backup" /\ ~att.invoked)
    /\ (InProgress \/ pc \in {"daily_task", "perform_backup"}) =>
           /\ next_run' = next_run
           /\ pc' \in {"perform_backup", "job_done"} \/ InProgress'

C12_NoOverlap == [][C12_Step]_vars

\* a backup is still running after the time of the following daily fire
C12_Witness ==
    /\ pc = "register"
    /\ att.invoked
    /\ now >= NextRun(check_now)


\* C13 as stated: when SOURCE_DIRECTORY is missing the process fails at
\* startup: the scheduler loop is never entered, perform_backup is never
\* invoked and no row is written.
C13_Original ==
    SOURCE_DIRECTORY = "None" =>
        /\ pc \in {"main", "schedule_backup"}
        /\ attempts = 0
        /\ backups = <<>>

\* s is a prefix of t
IsPrefix(s, t) == Len(s) <= Len(t) /\ SubSeq(t, 1, Len(s)) = s

\* C14: the history is append-only: a step never changes or removes a row,
\* and a new row gets an id greater than every id already in the history.
C14_Step ==
    /\ IsPrefix(backups, backups')
    /\ \A i \in (Len(backups) + 1)..Len(backups') :
           \A j \in 1..(i - 1) : backups'[j].id < backups'[i].id

C14_AppendOnly == [][C14_Step]_vars

C14_Witness ==
    /\ Len(backups) = 2
    /\ backups[1].id < backups[2].id
    /\ backups[1].status # backups[2].status


\* C15: init_db is idempotent: at every call, whatever the history and the
\* point it is made at, the call changes and removes no row, calling it
\* twice leaves the store as calling it once does, and on a store that is
\* already initialized any number of calls, succeeding or failing, leave
\* the store as it was.
C15_Step ==
    init_calls' = init_calls + 1 =>
        LET s == [rows |-> backups, exists |-> tableExists]
        IN  /\ backups' = backups
            /\ tableExists => tableExists'
            /\ \A ok \in BOOLEAN :
                   LET once == InitDbStore(s.rows, s.exists, ok)
                   IN  /\ once.rows = s.rows
                       /\ InitDbStore(once.rows, once.exists, ok) = once
                       /\ once.exists =>
                              \A again \in BOOLEAN :
                                  InitDbStore(once.rows, once.exists, again) = once

C15_InitDbIdempotent == [][C15_Step]_vars

C15_Witness ==
    /\ pc = "store"
    /\ init_calls = 3
    /\ tableExists
    /\ Len(backups) = 2


\* the daily_task in progress found that no backup is due
Skipped == att.checked /\ ~due

\* C16: when the timer fires and is_backup_due returns False, daily_task
\* returns without invoking perform_backup: from the check to the return
\* to the scheduler loop the history and the disk are unchanged, no row is
\* appended, no artifact is created, and the archiver, the uploader and
\* register_backup are not called.
C16_Step ==
    /\ (pc = "daily_task" /\ ~due') =>
           /\ pc' = "job_done"
           /\ backups' = backups
           /\ disk' = disk
           /\ attempts' = attempts
    /\ Skipped =>
           /\ pc = "job_done"
           /\ ~att.invoked
           /\ att.compressCalls = 0
           /\ att.uploadCalls = 0
           /\ att.registerCalls = 0
           /\ pc' = "run_pending"
           /\ backups' = backups
           /\ disk' = disk
           /\ attempts' = attempts

C16_NotDueNoBackup == [][C16_Step]_vars

C16_Witness ==
    /\ pc = "job_done"
    /\ Skipped
    /\ ~att.readFailed
    /\ HasExito(backups)
    /\ attempts = 1


\* the rows after one more Fallo row is appended at time t
WithFallo(rows, t) ==
    register_backup(rows, TRUE, t, BackupName(t), Fallo, <<MsgException>>, TRUE).rows

\* C17: a failed attempt is retried only at the next wake-up: within one
\* perform_backup invocation the archiver and the uploader are each called
\* at most once; appending a Fallo row to the history changes the result
\* of is_backup_due at no current time; and when the previous wake-up was
\* due and its attempt ended in failure, the present wake-up, reading the
\* store, is due again and invokes perform_backup.
C17_RetryAtNextWakeUp ==
    /\ att.compressCalls <= 1
    /\ att.uploadCalls <= 1
    /\ pc = "job_done" =>
           LET before == get_last_successful_backup(backups, TRUE, TRUE)
               after == get_last_successful_backup(WithFallo(backups, now), TRUE, TRUE)
           IN  \A t \in 0..MaxTime :
                   is_backup_due(after, t) = is_backup_due(before, t)
    /\ (JustChecked /\ ~att.readFailed /\ prev.checked /\ ~prev.readFailed
            /\ prev.due /\ prev.failure)
           => (due /\ pc = "perform_backup")

C17_Witness ==
    /\ pc = "perform_backup"
    /\ ~att.readFailed
    /\ prev.due
    /\ ~prev.readFailed
    /\ prev.failure
    /\ HasExito(backups)
    /\ backups[Len(backups)].status = Fallo
    /\ due


\* the one row this invocation wrote is an Exito row of its artifact
WroteExito ==
    /\ Len(Appended) = 1
    /\ Appended[1].status = Exito
    /\ Appended[1].backup_name = backup_name

\* C18: on the upload-success path register_backup has been called for the
\* Exito row, and the row is in the history unless that write failed,
\* before os.remove is attempted; the deletion, failing or not, and the
\* return that follows it leave every row as it was and append none.
C18_Step ==
    /\ att'.removeCalls > att.removeCalls =>
           /\ success /\ upload_success
           /\ att.removeCalls = 0
           /\ att.registerCalls = 1
           /\ ~att.writeFailed => WroteExito
           /\ backups' = backups
    /\ att.removeCalls > 0 =>
           /\ pc = "job_done"
           /\ att.registerCalls = 1
           /\ ~att.writeFailed => WroteExito
           /\ backups' = backups

C18_RecordBeforeDeletion == [][C18_Step]_vars

C18_Witness ==
    /\ pc = "job_done"
    /\ att.removeCalls = 1
    /\ att.removeFailed
    /\ backup_name \in disk
    /\ WroteExito

\* the step appends an Exito row
AppendsExito ==
    /\ Len(backups') > Len(backups)
    /\ \E i \in (Len(backups) + 1)..Len(backups') : backups'[i].status = Exito

\* C19: an Exito row is appended only by perform_backup, after
\* compress_directory returned success and then upload_to_drive returned
\* success in that invocation, so every Exito row of the history comes from
\* such an invocation; and upload_to_drive is called only after the
\* compression of the invocation succeeded.
C19_Step ==
    /\ AppendsExito =>
           /\ pc = "register"
           /\ att.invoked
           /\ att.compressCalls = 1 /\ success
           /\ att.uploadCalls = 1 /\ upload_success
           /\ att.registerCalls = 0
           /\ Len(backups') = Len(backups) + 1
    /\ att'.uploadCalls > att.uploadCalls =>
           /\ att.invoked
           /\ att.compressCalls = 1 /\ success
    /\ (att.invoked /\ ~success) => att.uploadCalls = 0
    /\ \A i \in 1..Len(backups) :
           backups[i].status = Exito => backups'[i] = backups[i]

C19_SuccessOnlyAfterUpload == [][C19_Step]_vars

C19_Witness ==
    /\ pc = "remove"
    /\ att.compressCalls = 1
    /\ att.uploadCalls = 1
    /\ success /\ upload_success
    /\ WroteExito
    /\ att.startLen = 1
    /\ backups[1].status = Fallo


\* the number of the daily fire that happens at time t
FireNumber(t) == t \div TicksPerDay

\* the time the attempt that wrote the last Exito row started at
LastSuccessStart == strptime(LastExitoRow(backups).backup_name[2])

\* that attempt wrote its row before the fire that followed its start
FinishedBeforeNextFire ==
    LastExitoRow(backups).timestamp < strftime(LastSuccessStart) + SecPerDay

\* fires since the one the last successful attempt started at
FiresSinceSuccess == FireNumber(check_now) - FireNumber(LastSuccessStart)

\* is_backup_due has just returned, the store was read, and the last Exito
\* row is the row of an attempt that finished before the next fire
CheckedAfterSuccess ==
    /\ JustChecked
    /\ ~att.readFailed
    /\ HasExito(backups)
    /\ FinishedBeforeNextFire

\* C20 (state): at a fire n+k after the attempt started at fire n wrote its
\* Exito row, perform_backup is not invoked for k in
\* 1..BACKUP_INTERVAL_DAYS-1 and is invoked for k > BACKUP_INTERVAL_DAYS;
\* for k = BACKUP_INTERVAL_DAYS it is invoked exactly when the row's
\* timestamp is the second of fire n.
C20_State ==
    CheckedAfterSuccess =>
        LET k == FiresSinceSuccess
        IN  /\ check_now = LastSuccessStart + k * TicksPerDay
            /\ k >= 1
            /\ k \in 1..(BACKUP_INTERVAL_DAYS - 1) => (~due /\ pc = "job_done")
            /\ k = BACKUP_INTERVAL_DAYS => (due <=> LastSuccessT = LastSuccessStart)
            /\ k > BACKUP_INTERVAL_DAYS => (due /\ pc = "perform_backup")

\* C20 (step): the job runs when its time has come and not before, and
\* after a wake-up that was not due the next fire is the fire of the next
\* day, so a fire that is not due is followed by fire n+k+1.
C20_Step ==
    /\ pc' = "daily_task" => (now = next_run /\ now = NextRun(now - 1))
    /\ (pc = "job_done" /\ Skipped) =>
           /\ now = check_now
           /\ next_run' = check_now + TicksPerDay
           /\ FireNumber(next_run') = FireNumber(check_now) + 1

\* C20: with one fire a day, a readable store and a clock that does not go
\* back, after the attempt started at fire n wrote an Exito row (before
\* fire n+1), perform_backup is not invoked at the fires n+1 ..
\* n+BACKUP_INTERVAL_DAYS-1 and is invoked at fire n+BACKUP_INTERVAL_DAYS
\* or, when it is not, at fire n+BACKUP_INTERVAL_DAYS+1.
C20_NextBackupFire == [](C20_State) /\ [][C20_Step]_vars

C20_Witness ==
    /\ CheckedAfterSuccess
    /\ FiresSinceSuccess = BACKUP_INTERVAL_DAYS + 1
    /\ ~prev.readFailed
    /\ prev.checked
    /\ ~prev.due
    /\ due
    /\ pc = "perform_backup"

TypeOK ==
    /\ now \in 0..MaxTime
    /\ pc \in {"main", "schedule_backup", "run_pending", "daily_task",
               "perform_backup", "compress", "upload", "register", "remove",
               "except", "job_done", "crashed", "store"}
    /\ attempts \in 0..MaxAttempts
    /\ init_calls \in 0..MaxInitCalls
====
